---- MODULE Spec2Model ----
(***************************************************************************)
(* Model of disentangle_sdk.client.DisentangleAgent: the session state,   *)
(* the request/response codec (_request) with its error classification,   *)
(* the typed operation surface, and the SSE consumer (watch).             *)
(*                                                                         *)
(* One caller thread drives one client.  A non-streaming call is two      *)
(* steps: Call (gate, payload, hand the request to the transport) and     *)
(* Respond (the transport's outcome, classification, unwrapping).  The    *)
(* node and the network are the environment: they choose the outcome.     *)
(***************************************************************************)
EXTENDS Integers, Sequences, FiniteSets, TLC

VARIABLES
    identity,         \* self._identity (NoIdentity models None)
    signing_key_hex,  \* self._signing_key_hex
    closed,           \* the httpx client has been closed
    call,             \* the non-streaming call in progress, or the last one
    firstDid,         \* history: the DID of the first successful register
    lastReg,          \* history: identity in the latest successful register response
    gen,              \* the generator object returned by watch()
    scope,            \* the with block the client is used in, if any
    decoded,          \* a profile and the CoherenceReport decoded from it
    other             \* a second caller thread inside an identity-scoped call

vars == <<identity, signing_key_hex, closed, call, firstDid, lastReg, gen,
          scope, decoded, other>>

----------------------------------------------------------------------------
(* Values *)

None == "None"          \* Python None / JSON null
Absent == "<absent>"    \* a key that a JSON object does not have
NotSent == "<not sent>" \* a request field the operation does not send
False == "False"
True == "True"

DIDs == {"did:1", "did:2"}
SigningKeys == {"sk1", "sk2"}
Document == "{doc}"

NoIdentity == [did |-> None, signing_key_hex |-> None, document |-> None]

---------------------------------------------------------------------------------------------------------------------------------------------------
(* Response bodies.  A body is text that is not JSON, a JSON array, or a  *)
(* JSON object: a function from the keys it has to their values.          *)

Restrict(f, D) == [k \in D |-> f[k]]

NoFields == [k \in {} |-> None]

Obj(f) == [json |-> "object", fields |-> f]

InvalidJson == [json |-> "invalid", fields |-> NoFields]
JsonArray == [json |-> "array", fields |-> NoFields]

\* every object with some of the keys of D, each key with a value of vals[key]
Objects(vals) ==
    { Obj(Restrict(f, D)) :
        f \in [DOMAIN vals -> UNION {vals[k] : k \in DOMAIN vals}],
        D \in SUBSET DOMAIN vals }

WellTyped(vals) ==
    { o \in Objects(vals) : \A k \in DOMAIN o.fields : o.fields[k] \in vals[k] }

ErrBodies ==
    WellTyped([error |-> {"boom"}, coherence_score |-> {None, "0.1"}])

RegBodies ==
    WellTyped([did |-> DIDs, signing_key_hex |-> SigningKeys, document |-> {Document}])

CapBodies ==
    WellTyped([capability_id_hex |-> {"cap1"}, capability |-> {"{cap}"}])

SuccessBodies ==
    WellTyped([success |-> {True, False}])

NeighborsBodies ==
    WellTyped([neighbors |-> {"[did:2]"}])

ProfileBodies ==
    WellTyped([profile |-> {"{profile}", "{profile without decayed_mass}"}])

Bodies ==
    ErrBodies \cup RegBodies \cup CapBodies \cup SuccessBodies
    \cup NeighborsBodies \cup ProfileBodies \cup {InvalidJson, JsonArray}

\* dict.get(key, default)
Get(body, key, default) ==
    IF key \in DOMAIN body.fields THEN body.fields[key] ELSE default

-----
(* Transport outcomes: a response (status, body) or an httpx exception.   *)

Statuses == {200, 201, 302, 400, 403, 404, 500}

\* httpx exception classes raised by the transport, with their base classes
FaultBases ==
    [ ConnectError        |-> {"ConnectError", "NetworkError", "TransportError", "RequestError", "HTTPError"},
      ConnectTimeout      |-> {"ConnectTimeout", "TimeoutException", "TransportError", "RequestError", "HTTPError"},
      ReadTimeout         |-> {"ReadTimeout", "TimeoutException", "TransportError", "RequestError", "HTTPError"},
      ReadError           |-> {"ReadError", "NetworkError", "TransportError", "RequestError", "HTTPError"},
      RemoteProtocolError |-> {"RemoteProtocolError", "ProtocolError", "TransportError", "RequestError", "HTTPError"},
      DecodingError       |-> {"DecodingError", "RequestError", "HTTPError"},
      TooManyRedirects    |-> {"TooManyRedirects", "RequestError", "HTTPError"} ]

Faults == DOMAIN FaultBases

NoFault == "<none>"

ResponseOf(status, body) ==
    [kind |-> "response", status |-> status, body |-> body, fault |-> NoFault]

FaultOf(f) ==
    [kind |-> "fault", status |-> 0, body |-> InvalidJson, fault |-> f]

NoExchange == [kind |-> "none", status |-> 0, body |-> InvalidJson, fault |-> NoFault]

Exchanges ==
    { ResponseOf(200, b) : b \in Bodies }
    \cup { ResponseOf(s, b) : s \in Statuses, b \in ErrBodies \cup {InvalidJson, JsonArray} }
    \cup { FaultOf(f) : f \in Faults }

----------------------------------------------------------------------------
(* Results of a call: a return or a raised exception.                     *)

Classified == {"Protocol", "NotFound", "Denied", "ConnectionFailure", "NotRegistered"}

Returned(ret, body) ==
    [kind |-> "return", msg |-> None, score |-> None, ret |-> ret, body |-> body]

Raised(kind, msg, score) ==
    [kind |-> kind, msg |-> msg, score |-> score, ret |-> None, body |-> InvalidJson]

NoResult == [kind |-> "none", msg |-> None, score |-> None, ret |-> None, body |-> InvalidJson]

NotRegisteredError == Raised("NotRegistered", "Agent is not registered. Call register() first.", None)

----------------------------------------------------------------------------
(* _request: the codec and the error classifier (client.py 78-109).       *)

\* response.is_success
is_success(status) == status >= 200 /\ status < 300

\* response.json(): raises json.JSONDecodeError on a body that is not JSON
\* <json>.get(...) on a JSON value that is not an object raises AttributeError
JsonGetFails(body) ==
    CASE body.json = "invalid" -> Raised("JSONDecodeError", None, None)
      [] body.json = "array" -> Raised("AttributeError", None, None)
      [] OTHER -> NoResult

\* a classifier that reports 400 as NotFound
StatusError400AsNotFound(status, body) ==
    IF status \in {404, 400}
    THEN Raised("NotFound", Get(body, "error", "Not found"), None)
    ELSE IF status = 403
    THEN Raised("Denied", Get(body, "error", "Forbidden"),
                Get(body, "coherence_score", None))
    ELSE Raised("Protocol", Get(body, "error", "HTTP " \o ToString(status)), None)

\* a classifier that makes up a score when the body has none
StatusErrorDefaultScore(status, body) ==
    IF status = 404 THEN Raised("NotFound", Get(body, "error", "Not found"), None)
    ELSE IF status = 403
    THEN Raised("Denied", Get(body, "error", "Forbidden"),
                Get(body, "coherence_score", "0.0"))
    ELSE IF status = 400
    THEN Raised("Protocol", Get(body, "error", "Bad request"), None)
    ELSE Raised("Protocol", Get(body, "error", "HTTP " \o ToString(status)), None)

\* the branch of _request for a status that is an error status
StatusError(status, body) ==
    CASE status = 404 ->
            Raised("NotFound", Get(body, "error", "Not found"), None)
      [] status = 403 ->
            Raised("Denied", Get(body, "error", "Forbidden"),
                   Get(body, "coherence_score", None))
      [] status = 400 ->
            Raised("Protocol", Get(body, "error", "Bad request"), None)
      [] OTHER ->
            Raised("Protocol", Get(body, "error", "HTTP " \o ToString(status)), None)

\* except clauses that catch only httpx.ConnectError and httpx.TimeoutException
ClassifyFaultNoHTTPError(f) ==
    IF "ConnectError" \in FaultBases[f]
    THEN Raised("ConnectionFailure", "Cannot connect to node: " \o f, None)
    ELSE IF "TimeoutException" \in FaultBases[f]
    THEN Raised("ConnectionFailure", "Request timeout: " \o f, None)
    ELSE Raised(f, None, None)

\* the except clauses of _request, in order
ClassifyFault(f) ==
    IF "ConnectError" \in FaultBases[f]
    THEN Raised("ConnectionFailure", "Cannot connect to node: " \o f, None)
    ELSE IF "TimeoutException" \in FaultBases[f]
    THEN Raised("ConnectionFailure", "Request timeout: " \o f, None)
    ELSE IF "HTTPError" \in FaultBases[f]
    THEN Raised("ConnectionFailure", "HTTP error: " \o f, None)
    ELSE Raised(f, None, None)

\* what _request returns or raises for an outcome of self._client.request
Request(x) ==
    IF x.kind = "fault" THEN ClassifyFault(x.fault)
    ELSE IF x.status \in {404, 403, 400} \/ ~is_success(x.status)
         THEN IF x.body.json # "object" THEN JsonGetFails(x.body)
              ELSE StatusError(x.status, x.body)
         ELSE IF x.body.json = "invalid" THEN JsonGetFails(x.body)
              ELSE Returned("json", x.body)

\* self._client.request on a closed httpx client
ClosedClientError == Raised("RuntimeError", "Cannot send a request, as the client has been closed.", None)

----------------------------------------------------------------------------
(* The typed operation surface.  For each operation: whether it checks    *)
(* is_registered first, whether its request carries self.did and          *)
(* self._signing_key_hex, whether it calls _request at all, and how it    *)
(* unwraps the response.                                                  *)

Op(gated, did, key, sends, unwrap, field, default) ==
    [gated |-> gated, did |-> did, key |-> key, sends |-> sends,
     unwrap |-> unwrap, field |-> field, default |-> default]

Raw(gated, did, key) == Op(gated, did, key, TRUE, "raw", None, None)
Field(gated, did, key, field, default) == Op(gated, did, key, TRUE, "field", field, default)

OpTable ==
    [ register               |-> Op(FALSE, FALSE, FALSE, TRUE, "identity", None, None),
      did                    |-> Op(TRUE, FALSE, FALSE, FALSE, "did", None, None),
      is_registered          |-> Op(FALSE, FALSE, FALSE, FALSE, "is_registered", None, None),
      get_identity           |-> Raw(FALSE, FALSE, FALSE),
      create_capability      |-> Op(TRUE, TRUE, TRUE, TRUE, "handle", None, None),
      delegate               |-> Raw(TRUE, TRUE, TRUE),
      invoke                 |-> Field(TRUE, TRUE, FALSE, "success", False),
      revoke                 |-> Field(TRUE, TRUE, FALSE, "success", False),
      get_capability         |-> Raw(FALSE, FALSE, FALSE),
      list_capabilities      |-> Field(TRUE, TRUE, FALSE, "capabilities", "[]"),
      introduce              |-> Field(TRUE, TRUE, TRUE, "success", False),
      get_introduction_chain |-> Field(TRUE, TRUE, FALSE, "chain", "[]"),
      coherence              |-> Op(TRUE, TRUE, FALSE, TRUE, "report", None, None),
      peer_coherence         |-> Op(FALSE, FALSE, FALSE, TRUE, "report", None, None),
      curvature_with         |-> Field(TRUE, TRUE, FALSE, "curvature", "0.0"),
      neighbors              |-> Field(TRUE, TRUE, FALSE, "neighbors", "[]"),
      curvature_derivative   |-> Raw(FALSE, FALSE, FALSE),
      excitability           |-> Raw(FALSE, FALSE, FALSE),
      gradient_map           |-> Raw(FALSE, FALSE, FALSE),
      name                   |-> Op(TRUE, FALSE, FALSE, TRUE, "none", None, None),
      resolve_name           |-> Op(TRUE, FALSE, FALSE, TRUE, "resolve", "did", None),
      propose_agreement      |-> Raw(TRUE, TRUE, TRUE),
      accept_agreement       |-> Field(TRUE, FALSE, TRUE, "success", False),
      complete_agreement     |-> Field(TRUE, FALSE, TRUE, "success", False),
      list_agreements        |-> Field(TRUE, TRUE, FALSE, "agreements", "[]"),
      network_health         |-> Raw(FALSE, FALSE, FALSE),
      node_status            |-> Raw(FALSE, FALSE, FALSE),
      create_proposal        |-> Raw(TRUE, TRUE, TRUE),
      join_proposal          |-> Raw(TRUE, TRUE, TRUE),
      list_proposals         |-> Field(TRUE, FALSE, FALSE, "proposals", "[]"),
      create_intent          |-> Raw(TRUE, TRUE, TRUE),
      join_intent            |-> Raw(TRUE, TRUE, TRUE),
      archive_intent         |-> Raw(TRUE, TRUE, TRUE),
      intent_coherence       |-> Raw(TRUE, FALSE, FALSE),
      list_intents           |-> Field(TRUE, FALSE, FALSE, "intents", "[]"),
      query_oracle           |-> Raw(TRUE, FALSE, FALSE),
      get_distribution       |-> Raw(FALSE, FALSE, FALSE),
      list_distributions     |-> Field(FALSE, FALSE, FALSE, "distributions", "[]"),
      pool_status            |-> Raw(FALSE, FALSE, FALSE),
      pool_claim             |-> Raw(TRUE, TRUE, TRUE),
      create_pool            |-> Raw(TRUE, TRUE, TRUE),
      pool_deposit           |-> Raw(TRUE, TRUE, TRUE),
      pool_distribute        |-> Raw(TRUE, TRUE, TRUE),
      pool_claims            |-> Field(FALSE, FALSE, FALSE, "claims", "[]"),
      neighborhoods          |-> Field(FALSE, FALSE, FALSE, "neighborhoods", "[]") ]

Ops == DOMAIN OpTable

\* the is_registered property
is_registered == identity # NoIdentity

\* the guard missing from one method
GateFailsButOne(op) == OpTable[op].gated /\ op # "query_oracle" /\ ~is_registered

\* the guard at the head of every method but register
GateFailsEveryOp(op) == op # "register" /\ ~is_registered

\* the guard at the head of an identity-scoped method
GateFails(op) == OpTable[op].gated /\ ~is_registered

\* pydantic validation of Model(**response): every required field is there
HasAll(body, required) == required \subseteq DOMAIN body.fields

IdentityFields == {"did", "signing_key_hex", "document"}
HandleFields == {"capability_id_hex", "capability"}

\* CoherenceReport(**response.get("profile", response))
Report(body) ==
    IF Get(body, "profile", Absent) = "{profile}"
    THEN Returned("CoherenceReport", body)
    ELSE Raised("ValidationError", None, None)

\* a resolve_name without its except clause
CatchNothing(op, r) == r

\* a resolve_name that answers None to every classified error
CatchEveryError(op, r) ==
    IF OpTable[op].unwrap = "resolve" /\ r.kind \in Classified
    THEN Returned(None, InvalidJson)
    ELSE r

\* the except clauses of the method around its call of _request: only
\* resolve_name has one (except DIDNotFoundError: return None)
Catch(op, r) ==
    IF OpTable[op].unwrap = "resolve" /\ r.kind = "NotFound"
    THEN Returned(None, InvalidJson)
    ELSE r

\* a pass-through that returns an empty object in place of the body
PassThroughEmpty(r) == Returned("json", Obj(NoFields))

\* return self._request(...)
PassThrough(r) == r

\* what the method does with the value or the exception of _request
Unwrap(op, r) ==
    LET o == OpTable[op] IN
    IF r.kind # "return"
    THEN Catch(op, r)
    ELSE CASE o.unwrap = "raw" -> PassThrough(r)
           [] o.unwrap = "none" -> Returned(None, InvalidJson)
           [] o.unwrap \in {"field", "resolve"} ->
                IF r.body.json # "object"
                THEN Raised("AttributeError", None, None)
                ELSE Returned(Get(r.body, o.field, o.default), InvalidJson)
           [] o.unwrap = "identity" ->
                IF r.body.json # "object" THEN Raised("TypeError", None, None)
                ELSE IF ~HasAll(r.body, IdentityFields)
                THEN Raised("ValidationError", None, None)
                ELSE Returned("AgentIdentity", r.body)
           [] o.unwrap = "handle" ->
                IF r.body.json # "object" THEN Raised("TypeError", None, None)
                ELSE IF ~HasAll(r.body, HandleFields)
                THEN Raised("ValidationError", None, None)
                ELSE Returned("CapabilityHandle", r.body)
           [] o.unwrap = "report" ->
                IF r.body.json # "object" THEN Raised("AttributeError", None, None)
                ELSE Report(r.body)

\* AgentIdentity(**response)
AgentIdentity(body) ==
    [did |-> body.fields["did"],
     signing_key_hex |-> body.fields["signing_key_hex"],
     document |-> body.fields["document"]]

----------------------------------------------------------------------------
(* State *)

NoRequest == [did |-> NotSent, key |-> NotSent]

IdleCall ==
    [phase |-> "idle", op |-> "none", sent |-> 0, request |-> NoRequest,
     exchange |-> NoExchange, reqResult |-> NoResult, result |-> NoResult]

\* the generator object made by watch(): where it stands, how it delivers,
\* the did of its request, the lines read, the events yielded or passed to
\* the callback, the exception that ended it, its streaming connection, and
\* (history) how many times the caller has called next() on it, how the
\* body of the stream ended on the wire, the status of the answer to the
\* streaming request, and the exception the callback raised last
NoGen ==
    [state |-> "none", callback |-> FALSE, did |-> NotSent, opened |-> 0,
     lines |-> <<>>, yielded |-> <<>>, called |-> <<>>,
     error |-> "none", conn |-> "none", pulls |-> 0, wire |-> "none",
     status |-> 0, cbRaised |-> "none"]

\* no with block: the client is used as a plain object
NoScope == [state |-> "none", raised |-> "none", propagated |-> "none"]

\* nothing decoded
NoDecoded == [phase |-> "none"]

\* no second thread; (history) the registrations whose response has come
NoOther == [pc |-> "none", did |-> NotSent, key |-> NotSent, regs |-> {}]

\* the fields __init__ sets, and nothing else going on
Constructed ==
    /\ identity = NoIdentity
    /\ signing_key_hex = None
    /\ closed = FALSE
    /\ call = IdleCall
    /\ firstDid = None
    /\ lastReg = NoIdentity
    /\ gen = NoGen
    /\ scope = NoScope
    /\ other = NoOther

Init ==
    /\ Constructed
    /\ decoded = NoDecoded

\* the caller thread is not inside a call, nor inside next() on the generator
\* (and has not left the with block it used the client in)
CallerFree ==
    /\ call.phase # "waiting"
    /\ gen.state \notin {"connecting", "running"}
    /\ scope.state # "exited"

GenLive == gen.state \in {"created", "suspended"}
GenOver == gen.state \in {"closed", "failed", "cancelled"}

\* The one caller holds at most one event iterator.  Before it has pulled
\* from it the caller may still register; once the stream is open it only
\* pulls, closes the iterator or closes the client; it lets go of an
\* iterator that is over before it makes other calls.
CallerMay(op) ==
    \/ gen.state = "none"
    \/ gen.state = "created" /\ op = "register"

----------------------------------------------------------------------------
(* Non-streaming calls *)

\* the payload or path fields that come from the session
BuildRequest(op) ==
    [did |-> IF OpTable[op].did THEN identity.did ELSE NotSent,
     key |-> IF OpTable[op].key THEN signing_key_hex ELSE NotSent]

\* how many times the method hands a request to self._client.request
Sent(op) == IF GateFails(op) \/ ~OpTable[op].sends THEN 0 ELSE 1

\* a method that returns without calling _request
Local(op) ==
    IF GateFails(op) THEN NotRegisteredError
    ELSE IF OpTable[op].unwrap = "did" THEN Returned(identity.did, InvalidJson)
    ELSE Returned(IF is_registered THEN True ELSE False, InvalidJson)

\* the caller invokes a method: the gate, the payload, the request handed to
\* the transport (which refuses it at once when the client is closed)
Call(op) ==
    /\ CallerFree
    /\ CallerMay(op)
    /\ LET started == [IdleCall EXCEPT !.op = op, !.sent = Sent(op)] IN
       call' =
         IF Sent(op) = 0
         THEN [started EXCEPT !.phase = "done", !.result = Local(op)]
         ELSE IF closed
         THEN [started EXCEPT !.phase = "done", !.request = BuildRequest(op),
                              !.reqResult = ClosedClientError,
                              !.result = Unwrap(op, ClosedClientError)]
         ELSE [started EXCEPT !.phase = "waiting", !.request = BuildRequest(op)]
    /\ UNCHANGED <<identity, signing_key_hex, closed, firstDid, lastReg, gen, scope, decoded, other>>

\* a _request that tries once more after a transport fault
RetriesAfterFault(r) == IF r.kind = "ConnectionFailure" THEN 1 ELSE 0

\* _request has no loop around self._client.request: whatever it raises, it
\* hands the transport no further request
Retries(r) == 0

\* a register that keeps the identity it already has
RegisterStoreKeepsFirst(body) ==
    IF is_registered
    THEN [identity |-> identity, key |-> signing_key_hex]
    ELSE [identity |-> AgentIdentity(body), key |-> body.fields["signing_key_hex"]]

\* a register that stores the identity and leaves the key as it is
RegisterStoreNoKey(body) ==
    [identity |-> AgentIdentity(body), key |-> signing_key_hex]

\* register stores the identity built from the response, then the key
RegisterStore(body) ==
    [identity |-> AgentIdentity(body), key |-> body.fields["signing_key_hex"]]

\* a register that forgets the session when it fails
SessionAfterClearsOnFailure(op, res, body) ==
    IF op = "register" /\ res.kind = "return" THEN RegisterStore(body)
    ELSE IF op = "register" THEN [identity |-> NoIdentity, key |-> None]
    ELSE [identity |-> identity, key |-> signing_key_hex]

\* the session when the method is over: only register assigns to it, and
\* only after _request has returned and AgentIdentity(**response) was built
SessionAfter(op, res, body) ==
    IF op = "register" /\ res.kind = "return" THEN RegisterStore(body)
    ELSE [identity |-> identity, key |-> signing_key_hex]

\* a client that answers from what an earlier registration left behind
ResponseFromCache(x) ==
    IF firstDid # None /\ x.kind = "response"
    THEN ResponseOf(200, Obj([did |-> firstDid]))
    ELSE x

\* response = self._client.request(...): what _request classifies is the
\* outcome of this call's own exchange
Response(x) == x

\* the transport answers (or fails); _request classifies; the method unwraps
Respond(x) ==
    /\ call.phase = "waiting"
    /\ LET r == Request(Response(x))
           res == Unwrap(call.op, r)
           registered == call.op = "register" /\ res.kind = "return"
       IN /\ call' = [call EXCEPT !.phase = "done", !.exchange = x,
                                  !.reqResult = r, !.result = res,
                                  !.sent = call.sent + Retries(r)]
          /\ identity' = SessionAfter(call.op, res, x.body).identity
          /\ signing_key_hex' = SessionAfter(call.op, res, x.body).key
          /\ lastReg' = IF registered THEN AgentIdentity(x.body) ELSE lastReg
          /\ firstDid' = IF registered /\ firstDid = None
                         THEN x.body.fields["did"] ELSE firstDid
    /\ UNCHANGED <<closed, gen, scope, decoded, other>>

\* a close() that also forgets the identity
CloseForgetsIdentity ==
    /\ CallerFree
    /\ closed' = TRUE
    /\ identity' = NoIdentity
    /\ signing_key_hex' = None
    /\ UNCHANGED <<call, firstDid, lastReg, gen, scope, decoded, other>>

\* close(): closes the httpx client (a caller that uses a with block leaves
\* the close to it)
Close ==
    /\ CallerFree
    /\ scope.state = "none"
    /\ closed' = TRUE
    /\ UNCHANGED <<identity, signing_key_hex, call, firstDid, lastReg, gen, scope, decoded, other>>

----------------------------------------------------------------------------
(* The client as a context manager: with DisentangleAgent(url) as agent.  *)

\* __enter__: returns self
Enter ==
    /\ Constructed
    /\ scope' = [scope EXCEPT !.state = "entered"]
    /\ UNCHANGED <<identity, signing_key_hex, closed, call, firstDid, lastReg,
                   gen, decoded, other>>

\* how the block can end: normally, by an exception of the caller's own
\* code, or by the exception the last call raised
BlockEnds ==
    {"none", "Exception"}
    \cup (IF call.phase = "done" /\ call.result.kind \notin {"return", "none"}
          THEN {call.result.kind} ELSE {})

\* what __exit__ returns: None, so the exception is not suppressed
exit_returns == None

\* an __exit__ that does not close the client
ExitWithoutClose(exc) ==
    /\ scope.state = "entered"
    /\ CallerFree
    /\ exc \in BlockEnds
    /\ scope' = [state |-> "exited", raised |-> exc,
                 propagated |-> IF exit_returns = True THEN "none" ELSE exc]
    /\ UNCHANGED <<identity, signing_key_hex, closed, call, firstDid, lastReg,
                   gen, decoded, other>>

\* __exit__(exc_type, exc_val, exc_tb): self.close()
Exit(exc) ==
    /\ scope.state = "entered"
    /\ CallerFree
    /\ exc \in BlockEnds
    /\ closed' = TRUE
    /\ scope' = [state |-> "exited", raised |-> exc,
                 propagated |-> IF exit_returns = True THEN "none" ELSE exc]
    /\ UNCHANGED <<identity, signing_key_hex, call, firstDid, lastReg,
                   gen, decoded, other>>

----------------------------------------------------------------------------
(* watch: the SSE consumer (client.py 795-828).  watch contains a yield,   *)
(* so calling it only makes a generator; its body runs inside next().     *)

MaxLines == 3

\* a line is a sequence of characters
DataPrefix == <<"d", "a", "t", "a", ":", " ">>

Line_Event1 == DataPrefix \o <<"1">>        \* data: 1
Line_Event2 == DataPrefix \o <<"2">>        \* data: 2
Line_Malformed == DataPrefix \o <<"{">>     \* data: {
Line_Comment == <<":", "k">>                \* :k   (an SSE comment)
Line_Blank == <<>>
Line_NoSpace == <<"d", "a", "t", "a", ":", "1">>   \* data:1

Lines ==
    {Line_Event1, Line_Event2, Line_Malformed, Line_Comment, Line_Blank, Line_NoSpace}

\* str.startswith
startswith(line, prefix) ==
    /\ Len(line) >= Len(prefix)
    /\ SubSeq(line, 1, Len(prefix)) = prefix

\* line[6:]
StripPrefix(line) == SubSeq(line, 6 + 1, Len(line))

Digits == {"1", "2"}

RECURSIVE LStrip(_)
LStrip(s) == IF s # <<>> /\ Head(s) = " " THEN LStrip(Tail(s)) ELSE s

RECURSIVE RStrip(_)
RStrip(s) ==
    IF s # <<>> /\ s[Len(s)] = " " THEN RStrip(SubSeq(s, 1, Len(s) - 1)) ELSE s

\* json.loads over this alphabet: a number or {} with surrounding whitespace;
\* anything else raises json.JSONDecodeError
JsonText(s) == RStrip(LStrip(s))

JsonDecodes(s) ==
    LET t == JsonText(s) IN
    \/ t # <<>> /\ \A i \in 1..Len(t) : t[i] \in Digits
    \/ t = <<"{", "}">>

\* the decoded value, written as its canonical text
json_loads(s) == JsonText(s)

\* a delivery that puts the newest event first
DeliverOutOfOrder(events, event) == <<event>> \o events

\* yield event / callback(event): the event follows those delivered before
Deliver(events, event) == Append(events, event)

\* a handler that lets the decode error end the stream
AbortOnDecodeError(read) ==
    [read EXCEPT !.state = "failed", !.error = "JSONDecodeError",
                 !.conn = "released"]

\* except json.JSONDecodeError: continue
OnDecodeError(read) == read

\* the outcomes of the caller's callback on an event
CallbackOutcomes == {"returns", "JSONDecodeError", "Exception"}

\* except clauses of watch that catch only connect errors and timeouts
WatchFaultNoHTTPError(bases) ==
    IF "ConnectError" \in bases THEN "ConnectionFailure"
    ELSE IF "TimeoutException" \in bases THEN "ConnectionFailure"
    ELSE "unclassified"

\* the except clauses of watch, in order
WatchFault(bases) ==
    IF "ConnectError" \in bases THEN "ConnectionFailure"
    ELSE IF "TimeoutException" \in bases THEN "ConnectionFailure"
    ELSE IF "HTTPError" \in bases THEN "ConnectionFailure"
    ELSE "unclassified"

\* response.raise_for_status() raises httpx.HTTPStatusError
HTTPStatusErrorBases == {"HTTPStatusError", "HTTPError"}

StreamStatuses == {200, 403, 404, 500}

\* watch(topics, callback): returns a generator; nothing else happens
WatchCall(cb) ==
    /\ CallerFree
    /\ gen.state = "none" \/ GenOver
    /\ gen' = [NoGen EXCEPT !.state = "created", !.callback = cb]
    /\ call' = IdleCall
    /\ UNCHANGED <<identity, signing_key_hex, closed, firstDid, lastReg, scope, decoded, other>>

\* next(generator): starts the body (gate, params, open the stream), or
\* resumes it after a yield
GenNext ==
    /\ CallerFree
    /\ GenLive
    /\ LET pulled == [gen EXCEPT !.pulls = gen.pulls + 1] IN
       gen' =
         IF gen.state = "suspended" THEN [pulled EXCEPT !.state = "running"]
         ELSE IF ~is_registered
         THEN [pulled EXCEPT !.state = "failed", !.error = "NotRegistered"]
         ELSE IF closed
         THEN [pulled EXCEPT !.state = "failed", !.error = "RuntimeError",
                             !.did = identity.did, !.opened = 1]
         ELSE [pulled EXCEPT !.state = "connecting", !.did = identity.did,
                             !.opened = 1]
    /\ call' = IdleCall
    /\ UNCHANGED <<identity, signing_key_hex, closed, firstDid, lastReg, scope, decoded, other>>

\* the streaming request fails in the transport
StreamOpenFault(f) ==
    /\ gen.state = "connecting"
    /\ gen' = [gen EXCEPT !.state = "failed", !.error = WatchFault(FaultBases[f])]
    /\ UNCHANGED <<identity, signing_key_hex, closed, call, firstDid, lastReg, scope, decoded, other>>

\* the response headers arrive: raise_for_status, then the read loop
StreamOpen(status) ==
    /\ gen.state = "connecting"
    /\ gen' =
         IF is_success(status)
         THEN [gen EXCEPT !.state = "running", !.conn = "open",
                          !.status = status]
         ELSE [gen EXCEPT !.state = "failed", !.conn = "released",
                          !.status = status,
                          !.error = WatchFault(HTTPStatusErrorBases)]
    /\ UNCHANGED <<identity, signing_key_hex, closed, call, firstDid, lastReg, scope, decoded, other>>

\* one turn of the loop over response.iter_lines()
StreamLine(line, outcome) ==
    /\ gen.state = "running"
    /\ Len(gen.lines) < MaxLines
    /\ LET read == [gen EXCEPT !.lines = Append(gen.lines, line)]
           event == json_loads(StripPrefix(line))
       IN gen' =
            IF ~startswith(line, DataPrefix) THEN read
            ELSE IF ~JsonDecodes(StripPrefix(line)) THEN OnDecodeError(read)
            ELSE IF ~gen.callback
            THEN [read EXCEPT !.yielded = Deliver(gen.yielded, event),
                              !.state = "suspended"]
            ELSE IF outcome = "returns"
            THEN [read EXCEPT !.called = Deliver(gen.called, event)]
            ELSE IF outcome = "JSONDecodeError"
            THEN OnDecodeError([read EXCEPT !.called = Deliver(gen.called, event),
                                            !.cbRaised = outcome])
            ELSE [read EXCEPT !.called = Deliver(gen.called, event),
                              !.state = "failed", !.error = outcome,
                              !.conn = "released", !.cbRaised = outcome]
    /\ UNCHANGED <<identity, signing_key_hex, closed, call, firstDid, lastReg, scope, decoded, other>>

\* an end of stream that the consumer reports as an error
StreamEndAsError ==
    /\ gen.state = "running"
    /\ gen' = [gen EXCEPT !.state = "failed", !.conn = "released",
                          !.error = "ConnectionFailure", !.wire = "eof"]
    /\ UNCHANGED <<identity, signing_key_hex, closed, call, firstDid, lastReg, scope, decoded, other>>

\* the node closes the stream: the loop ends, the generator is exhausted
StreamEnd ==
    /\ gen.state = "running"
    /\ gen' = [gen EXCEPT !.state = "closed", !.conn = "released",
                          !.wire = "eof"]
    /\ UNCHANGED <<identity, signing_key_hex, closed, call, firstDid, lastReg, scope, decoded, other>>

\* a consumer that keeps the connection when the transport fails
StreamFaultLeaks(f) ==
    /\ gen.state = "running"
    /\ gen' = [gen EXCEPT !.state = "failed",
                          !.error = WatchFault(FaultBases[f]), !.wire = "fault"]
    /\ UNCHANGED <<identity, signing_key_hex, closed, call, firstDid, lastReg, scope, decoded, other>>

\* a consumer that opens the stream again when the transport fails
StreamFaultReconnects(f) ==
    /\ gen.state = "running"
    /\ gen' = [gen EXCEPT !.state = "connecting", !.conn = "released",
                          !.opened = gen.opened + 1, !.wire = "fault"]
    /\ UNCHANGED <<identity, signing_key_hex, closed, call, firstDid, lastReg, scope, decoded, other>>

\* the transport fails while the body is read
StreamFault(f) ==
    /\ gen.state = "running"
    /\ gen' = [gen EXCEPT !.state = "failed", !.conn = "released",
                          !.error = WatchFault(FaultBases[f]), !.wire = "fault"]
    /\ UNCHANGED <<identity, signing_key_hex, closed, call, firstDid, lastReg, scope, decoded, other>>

\* a close that reads what is left of the stream before it lets go
GenCloseDrains ==
    /\ CallerFree
    /\ GenLive
    /\ gen' = [gen EXCEPT !.state = "cancelled",
                          !.lines = IF gen.conn = "open"
                                    THEN Append(gen.lines, Line_Event2)
                                    ELSE gen.lines,
                          !.conn = IF gen.conn = "open" THEN "released" ELSE gen.conn]
    /\ call' = IdleCall
    /\ UNCHANGED <<identity, signing_key_hex, closed, firstDid, lastReg, scope, decoded, other>>

\* generator.close(): GeneratorExit at the yield leaves the with block
GenClose ==
    /\ CallerFree
    /\ GenLive
    /\ gen' = [gen EXCEPT !.state = "cancelled",
                          !.conn = IF gen.conn = "open" THEN "released" ELSE gen.conn]
    /\ call' = IdleCall
    /\ UNCHANGED <<identity, signing_key_hex, closed, firstDid, lastReg, scope, decoded, other>>

\* the caller lets go of a generator that is over (the end of its for loop)
GenDrop ==
    /\ GenOver
    /\ gen' = NoGen
    /\ UNCHANGED <<identity, signing_key_hex, closed, call, firstDid, lastReg, scope, decoded, other>>

Next ==
    \/ \E op \in Ops : Call(op)
    \/ \E x \in Exchanges : Respond(x)
    \/ Close
    \/ \E cb \in BOOLEAN : WatchCall(cb)
    \/ GenNext
    \/ \E f \in Faults : StreamOpenFault(f)
    \/ \E status \in StreamStatuses : StreamOpen(status)
    \/ \E line \in Lines, outcome \in CallbackOutcomes : StreamLine(line, outcome)
    \/ StreamEnd
    \/ \E f \in Faults : StreamFault(f)
    \/ GenClose
    \/ GenDrop

Spec == Init /\ [][Next]_vars

\* every exception a block can end by
BlockExceptions ==
    Classified \cup {"none", "Exception", "ValidationError", "JSONDecodeError",
                     "AttributeError", "TypeError", "RuntimeError"}

\* the client used in a with block: the same operations between __enter__
\* and __exit__
ScopeNext ==
    \/ Next
    \/ Enter
    \/ \E exc \in BlockExceptions : Exit(exc)

ScopeSpec == Init /\ [][ScopeNext]_vars

----------------------------------------------------------------------------
(* The CoherenceReport decoder of coherence / peer_coherence.             *)
(* A JSON value is a string or a number; a number is kept in tenths, with *)
(* its JSON spelling (integer or fractional).                             *)

Str(s) == [t |-> "str", v |-> 0, s |-> s]
Num(t, v) == [t |-> t, v |-> v, s |-> ""]

\* the fields of CoherenceReport and their annotations
ReportTypes ==
    [ did                  |-> "str",
      topological_mass     |-> "float",
      mean_local_curvature |-> "float",
      relational_diversity |-> "int",
      temporal_depth       |-> "int",
      composite_score      |-> "float",
      decayed_mass         |-> "float" ]

ReportFields == DOMAIN ReportTypes

\* a model in which decayed_mass has a default
RequiredButDecayedMass == ReportFields \ {"decayed_mass"}

\* the fields without a default: all of them
Required == ReportFields

\* the values a node may send for a field of that type: of the type, a
\* number with the other spelling, and a value of the wrong type
ValuesOf(type) ==
    CASE type = "str" -> {Str("did:1"), Num("int", 30)}
      [] type = "float" -> {Num("float", 5), Num("int", 30)}
      [] type = "int" -> {Num("int", 30), Num("float", 30), Num("float", 5)}

Profiles ==
    UNION { { p \in [D -> UNION {ValuesOf(ReportTypes[f]) : f \in D}] :
                \A f \in D : p[f] \in ValuesOf(ReportTypes[f]) } :
            D \in SUBSET ReportFields }

\* pydantic's validation of one value against an annotation
Accepts(type, val) ==
    CASE type = "str" -> val.t = "str"
      [] type = "float" -> val.t \in {"int", "float"}
      [] type = "int" -> val.t = "int" \/ (val.t = "float" /\ val.v % 10 = 0)

\* the value the model holds after validation
Coerce(type, val) == IF type = "str" THEN val ELSE Num(type, val.v)

DefaultValue == Num("float", 0)

\* CoherenceReport(**profile): raises ValidationError, or gives the model
Validates(profile) ==
    /\ Required \subseteq DOMAIN profile
    /\ \A f \in DOMAIN profile : Accepts(ReportTypes[f], profile[f])

CoherenceReport(profile) ==
    [f \in ReportFields |->
        IF f \in DOMAIN profile THEN Coerce(ReportTypes[f], profile[f])
        ELSE DefaultValue]

NoReport == [f \in {} |-> DefaultValue]

\* the response: {"profile": profile}, or the profile itself
Received(profile, wrapped) ==
    [phase |-> "received", wrapped |-> wrapped, profile |-> profile,
     report |-> NoReport, error |-> "none", dumped |-> NoReport]

\* profile = response.get("profile", response); CoherenceReport(**profile)
Decode ==
    /\ decoded.phase = "received"
    /\ decoded' =
         IF Validates(decoded.profile)
         THEN [decoded EXCEPT !.phase = "decoded",
                              !.report = CoherenceReport(decoded.profile)]
         ELSE [decoded EXCEPT !.phase = "decoded", !.error = "ValidationError"]
    /\ UNCHANGED <<identity, signing_key_hex, closed, call, firstDid, lastReg,
                   gen, scope, other>>

\* report.model_dump(): the fields of the model, by name
Dump ==
    /\ decoded.phase = "decoded"
    /\ decoded.error = "none"
    /\ decoded' = [decoded EXCEPT !.phase = "dumped", !.dumped = decoded.report]
    /\ UNCHANGED <<identity, signing_key_hex, closed, call, firstDid, lastReg,
                   gen, scope, other>>

ProfileInit ==
    /\ Constructed
    /\ decoded \in {Received(p, w) : p \in Profiles, w \in BOOLEAN}

ProfileNext == Decode \/ Dump

ProfileSpec == ProfileInit /\ [][ProfileNext]_vars

----------------------------------------------------------------------------
(* Two caller threads on one client, with no lock: one inside register,   *)
(* one inside an identity-scoped call (create_capability).  Each          *)
(* statement that reads or writes a field of the session is a step.       *)

\* thread A may start a register when it is not inside one
RaceCall ==
    /\ call.phase \in {"idle", "done"}
    /\ Call("register")

\* register, up to self._identity = AgentIdentity(**response)
RaceRespond(x) ==
    /\ call.phase = "waiting"
    /\ call.op = "register"
    /\ LET r == Request(Response(x))
           res == Unwrap("register", r)
           stores == res.kind = "return"
       IN /\ call' = [call EXCEPT !.phase = IF stores THEN "storing" ELSE "done",
                                  !.exchange = x, !.reqResult = r, !.result = res]
          /\ identity' = IF stores THEN AgentIdentity(x.body) ELSE identity
          /\ lastReg' = IF stores THEN AgentIdentity(x.body) ELSE lastReg
          /\ firstDid' = IF stores /\ firstDid = None
                         THEN x.body.fields["did"] ELSE firstDid
          /\ other' = IF stores
                      THEN [other EXCEPT !.regs = other.regs \cup
                                {[did |-> x.body.fields["did"],
                                  key |-> x.body.fields["signing_key_hex"]]}]
                      ELSE other
    /\ UNCHANGED <<signing_key_hex, closed, gen, scope, decoded>>

\* register: self._signing_key_hex = response["signing_key_hex"]
RaceStoreKey ==
    /\ call.phase = "storing"
    /\ signing_key_hex' = call.exchange.body.fields["signing_key_hex"]
    /\ call' = [call EXCEPT !.phase = "done"]
    /\ UNCHANGED <<identity, closed, firstDid, lastReg, gen, scope, decoded, other>>

\* thread B: if not self.is_registered: raise NotRegisteredError
OtherGate ==
    /\ other.pc = "none"
    /\ other' = [other EXCEPT !.pc = IF is_registered THEN "gated" ELSE "failed",
                              !.did = NotSent, !.key = NotSent]
    /\ UNCHANGED <<identity, signing_key_hex, closed, call, firstDid, lastReg,
                   gen, scope, decoded>>

\* thread B: "issuer_did": self.did
OtherReadDid ==
    /\ other.pc = "gated"
    /\ other' = [other EXCEPT !.pc = "has did", !.did = identity.did]
    /\ UNCHANGED <<identity, signing_key_hex, closed, call, firstDid, lastReg,
                   gen, scope, decoded>>

\* thread B: "signing_key_hex": self._signing_key_hex
OtherReadKey ==
    /\ other.pc = "has did"
    /\ other' = [other EXCEPT !.pc = "built", !.key = signing_key_hex]
    /\ UNCHANGED <<identity, signing_key_hex, closed, call, firstDid, lastReg,
                   gen, scope, decoded>>

\* thread B: the call is over (its request sent, or NotRegistered raised)
OtherReturn ==
    /\ other.pc \in {"built", "failed"}
    /\ other' = [other EXCEPT !.pc = "none"]
    /\ UNCHANGED <<identity, signing_key_hex, closed, call, firstDid, lastReg,
                   gen, scope, decoded>>

RaceNext ==
    \/ RaceCall
    \/ \E x \in Exchanges : RaceRespond(x)
    \/ RaceStoreKey
    \/ OtherGate
    \/ OtherReadDid
    \/ OtherReadKey
    \/ OtherReturn

RaceSpec == Init /\ [][RaceNext]_vars

----------------------------------------------------------------------------
(* Properties *)

Started == call.phase \in {"waiting", "done"}
Done == call.phase = "done"

\* the operations C1 lists
C1_Ops ==
    {"did", "create_capability", "delegate", "invoke", "revoke",
     "list_capabilities", "introduce", "get_introduction_chain", "coherence",
     "curvature_with", "neighbors", "name", "resolve_name",
     "propose_agreement", "accept_agreement", "complete_agreement",
     "list_agreements", "create_proposal", "join_proposal", "list_proposals",
     "create_intent", "join_intent", "archive_intent", "intent_coherence",
     "list_intents", "query_oracle", "pool_claim", "create_pool",
     "pool_deposit", "pool_distribute"}

\* C1: on a client on which no register has succeeded, each listed
\* identity-scoped operation fails with NotRegistered, hands no request to
\* the transport, and leaves the session empty.
C1_UnregisteredFailsLocally ==
    (firstDid = None /\ Started /\ call.op \in C1_Ops) =>
        /\ Done
        /\ call.result.kind = "NotRegistered"
        /\ call.sent = 0
        /\ call.request = NoRequest
        /\ call.exchange = NoExchange
        /\ identity = NoIdentity
        /\ signing_key_hex = None

C1_Witness ==
    /\ firstDid = None
    /\ Done
    /\ call.op = "query_oracle"
    /\ call.result.kind = "NotRegistered"
    /\ call.sent = 0

HasKey(body, key) == key \in DOMAIN body.fields

C2_Message(body, default) ==
    IF HasKey(body, "error") THEN body.fields["error"] ELSE default

C2_Expected(status, body) ==
    CASE status = 404 -> <<"NotFound", C2_Message(body, "Not found")>>
      [] status = 403 -> <<"Denied", C2_Message(body, "Forbidden")>>
      [] status = 400 -> <<"Protocol", C2_Message(body, "Bad request")>>
      [] status = 302 -> <<"Protocol", C2_Message(body, "HTTP 302")>>
      [] status = 500 -> <<"Protocol", C2_Message(body, "HTTP 500")>>
      [] OTHER -> <<"return", None>>

\* C2: for a completed exchange whose body is a JSON object, _request raises
\* NotFound for 404, Denied for 403, Protocol for 400 and for every other
\* non-2xx status, with the body's error field as the message or else the
\* default of that status, and returns only for a 2xx status.
C2_StatusClassification ==
    (Done /\ call.exchange.kind = "response" /\ call.exchange.body.json = "object") =>
        /\ <<call.reqResult.kind, call.reqResult.msg>>
             = C2_Expected(call.exchange.status, call.exchange.body)
        /\ call.reqResult.kind = "return" <=> call.exchange.status \in 200..299

C2_Witness ==
    /\ Done
    /\ call.exchange.kind = "response"
    /\ call.exchange.status = 500
    /\ call.exchange.body = Obj(NoFields)
    /\ call.reqResult.kind = "Protocol"
    /\ call.reqResult.msg = "HTTP 500"

\* C3: every outcome of an exchange (any status, any body, any fault) makes
\* _request return a value or raise one of the five classified errors; a
\* 2xx response whose body is not JSON raises Protocol.
C3_ClassificationIsTotal ==
    (Done /\ call.exchange.kind # "none") =>
        /\ call.reqResult.kind \in Classified \cup {"return"}
        /\ (/\ call.exchange.kind = "response"
            /\ call.exchange.status \in 200..299
            /\ call.exchange.body.json = "invalid") => call.reqResult.kind = "Protocol"

\* C4: a Denied raised for a 403 carries the body's coherence_score when the
\* body has that field, and None when it has not.
C4_DeniedScore ==
    (Done /\ call.reqResult.kind = "Denied") =>
        /\ call.exchange.kind = "response"
        /\ call.exchange.status = 403
        /\ HasKey(call.exchange.body, "coherence_score") =>
              call.reqResult.score = call.exchange.body.fields["coherence_score"]
        /\ ~HasKey(call.exchange.body, "coherence_score") =>
              call.reqResult.score = None
        /\ call.result = call.reqResult

C4_Witness ==
    /\ Done
    /\ call.op = "invoke"
    /\ call.result.kind = "Denied"
    /\ call.result.score = "0.1"
    /\ call.exchange.body.fields["coherence_score"] = "0.1"

\* C5: when the transport cannot complete the exchange, the call raises
\* ConnectionFailure, whatever the operation.
C5_FaultIsConnectionFailure ==
    (Done /\ call.exchange.kind = "fault") =>
        /\ call.reqResult.kind = "ConnectionFailure"
        /\ call.result.kind = "ConnectionFailure"

C5_Witness ==
    /\ Done
    /\ call.op = "resolve_name"
    /\ call.exchange.kind = "fault"
    /\ call.exchange.fault = "ReadError"
    /\ call.result.kind = "ConnectionFailure"

\* the gate of the operation in the call record has passed
C6_GatePassed == ~OpTable[call.op].gated \/ is_registered

\* C6: a call hands the transport at most one request, and exactly one when
\* the operation sends one and its gate passes; a failed exchange is not
\* followed by a second request.
C6_OneRequestPerCall ==
    Started =>
        /\ call.sent <= 1
        /\ call.sent = 1 <=> (OpTable[call.op].sends /\ C6_GatePassed)

C6_Witness ==
    /\ Done
    /\ call.op = "pool_deposit"
    /\ call.exchange.kind = "fault"
    /\ call.result.kind = "ConnectionFailure"
    /\ call.sent = 1

\* C7: once register has succeeded (again), is_registered holds and the did
\* property and the DID and credential of every request built afterwards are
\* those of the latest registration response.
C7_LatestRegistrationWins ==
    /\ is_registered <=> lastReg # NoIdentity
    /\ is_registered =>
        /\ identity = lastReg
        /\ signing_key_hex = lastReg.signing_key_hex
    /\ (Started /\ call.sent >= 1 /\ OpTable[call.op].did) =>
            call.request.did = lastReg.did
    /\ (Started /\ call.sent >= 1 /\ OpTable[call.op].key) =>
            call.request.key = lastReg.signing_key_hex
    /\ (Done /\ call.op = "did" /\ call.result.kind = "return") =>
            call.result.ret = lastReg.did
    /\ gen.opened >= 1 => gen.did = lastReg.did

C7_Witness ==
    /\ firstDid # None
    /\ lastReg.did # firstDid
    /\ call.phase = "waiting"
    /\ call.op = "create_pool"
    /\ call.request.did = lastReg.did
    /\ call.request.did # firstDid
    /\ call.request.key = lastReg.signing_key_hex

\* the step in which a register call returns its identity
RegisterReturns ==
    /\ call.phase = "waiting"
    /\ call.op = "register"
    /\ call'.phase = "done"
    /\ call'.result.kind = "return"

\* C8: only a register that succeeds changes the session: every other step,
\* of a call that succeeds or fails, of watch or of close, leaves the DID
\* and the credential as they were.
C8_OnlyRegisterChangesSession ==
    [][(identity' # identity \/ signing_key_hex' # signing_key_hex) => RegisterReturns]_vars

C8_Witness ==
    /\ is_registered
    /\ identity = lastReg
    /\ closed
    /\ gen.state = "failed"
    /\ gen.error = "ConnectionFailure"
    /\ Len(gen.lines) >= 1

\* the event a line carries, if any
C9_EventOf(line) ==
    CASE line = Line_Event1 -> <<<<"1">>>>
      [] line = Line_Event2 -> <<<<"2">>>>
      [] OTHER -> <<>>

RECURSIVE C9_Events(_)
C9_Events(lines) ==
    IF lines = <<>> THEN <<>>
    ELSE C9_EventOf(Head(lines)) \o C9_Events(Tail(lines))

\* C9: in iterator mode the events yielded are the decoded payloads of the
\* well-formed data lines read so far, one per line, in wire order.
C9_IteratorYieldsInOrder ==
    (gen.state # "none" /\ ~gen.callback) =>
        /\ gen.yielded = C9_Events(gen.lines)
        /\ gen.called = <<>>

C9_Witness ==
    /\ ~gen.callback
    /\ gen.lines = <<Line_Comment, Line_Event1, Line_Event2>>
    /\ gen.yielded = << <<"1">>, <<"2">> >>

\* C10: in callback mode on a registered client, when the call to watch has
\* returned, the stream has ended and the callback has been invoked once per
\* decoded event, in wire order.
C10_CallbackWatchBlocks ==
    (gen.state # "none" /\ gen.callback /\ is_registered) =>
        /\ gen.state \in {"closed", "failed"}
        /\ gen.called = C9_Events(gen.lines)

\* a step of the read loop that takes one more line off the stream
LineRead ==
    /\ gen.state = "running"
    /\ Len(gen'.lines) = Len(gen.lines) + 1

\* C11: while streaming, a line without the data prefix or a data line whose
\* payload does not decode delivers nothing and raises nothing, the consumer
\* stays in the read loop, and a well-formed data line read after it is
\* delivered.
C11_SkippedLinesAreHarmless ==
    [][LineRead =>
        LET line == gen'.lines[Len(gen'.lines)] IN
        IF C9_EventOf(line) = <<>>
        THEN gen' = [gen EXCEPT !.lines = Append(gen.lines, line)]
        ELSE gen'.yielded \o gen'.called
                = (gen.yielded \o gen.called) \o C9_EventOf(line)]_vars

C11_Witness ==
    /\ gen.lines = <<Line_Malformed, Line_Blank, Line_Event2>>
    /\ gen.yielded = << <<"2">> >>
    /\ gen.state = "suspended"
    /\ gen.error = "none"

\* C12: in iterator mode the consumer has never decoded more events than
\* elements were requested, and an iterator closed after some events has
\* released its connection with no line read past the last event it yielded.
C12_AbandonReadsNoFurther ==
    (~gen.callback /\ gen.state # "none") =>
        /\ Len(C9_Events(gen.lines)) <= gen.pulls
        /\ Len(gen.yielded) <= gen.pulls
        /\ gen.state = "cancelled" =>
            /\ gen.error = "none"
            /\ Len(gen.yielded) = gen.pulls
            /\ gen.conn = IF gen.opened = 1 THEN "released" ELSE "none"
            /\ gen.lines # <<>> => C9_EventOf(gen.lines[Len(gen.lines)]) # <<>>

C12_Witness ==
    /\ ~gen.callback
    /\ gen.state = "cancelled"
    /\ gen.lines = <<Line_Event1>>
    /\ gen.yielded = << <<"1">> >>
    /\ gen.pulls = 1
    /\ gen.conn = "released"

\* the step in which the transport fails while the stream body is read
FaultWhileReading ==
    /\ gen.state = "running"
    /\ gen'.state = "failed"
    /\ gen'.lines = gen.lines

\* C13: a transport fault while the stream body is read ends the stream with
\* ConnectionFailure; the events yielded or passed to the callback before it
\* stay as delivered, once each and in order, and in iterator mode the
\* failure comes out of the request for the element after them.
C13_FaultKeepsDeliveredEvents ==
    [][FaultWhileReading =>
        /\ gen'.error = "ConnectionFailure"
        /\ gen'.conn = "released"
        /\ gen'.yielded = gen.yielded
        /\ gen'.called = gen.called
        /\ gen'.yielded \o gen'.called = C9_Events(gen'.lines)
        /\ gen'.pulls = gen.pulls
        /\ ~gen.callback => gen'.pulls = Len(gen'.yielded) + 1]_vars

C13_Witness ==
    /\ ~gen.callback
    /\ gen.state = "failed"
    /\ gen.error = "ConnectionFailure"
    /\ gen.lines = <<Line_Event1, Line_Comment>>
    /\ gen.yielded = << <<"1">> >>
    /\ gen.pulls = 2

\* The node closes or breaks every stream in the end, and the consumer of an
\* iterator keeps asking for the next element until it closes the iterator.
LiveSpec ==
    /\ Spec
    /\ WF_vars(StreamEnd)
    /\ WF_vars(GenNext)

\* C14: a clean close by the node after finitely many lines ends the stream
\* in Closed with no error, after every decodable event has been delivered
\* (iteration ends normally; the callback-mode generator returns), and a
\* stream that is being read does come to an end.
C14_CleanCloseEndsStream ==
    /\ [](gen.wire = "eof" =>
            /\ gen.state = "closed"
            /\ gen.error = "none"
            /\ gen.conn = "released"
            /\ gen.yielded \o gen.called = C9_Events(gen.lines))
    /\ (gen.state = "running") ~> (gen.state \in {"closed", "failed", "cancelled"})

C14_Witness ==
    /\ gen.callback
    /\ gen.state = "closed"
    /\ gen.error = "none"
    /\ gen.wire = "eof"
    /\ gen.lines = <<Line_Event1, Line_Malformed, Line_Event2>>
    /\ gen.called = << <<"1">>, <<"2">> >>

\* C15: when a call to watch on a client with no established session has
\* returned, in either delivery mode, it has failed with NotRegistered and
\* opened no streaming request.
C15_WatchUnregisteredFailsAtCall ==
    (gen.state # "none" /\ firstDid = None) =>
        /\ gen.state = "failed"
        /\ gen.error = "NotRegistered"
        /\ gen.opened = 0

C17_ExchangeErrors == {"NotFound", "Denied", "Protocol", "ConnectionFailure"}

\* C17: apart from NotFound in resolve_name, a NotFound, Denied, Protocol or
\* ConnectionFailure that the exchange produces is what the caller of the
\* operation gets, with the same message and score.
C17_ClassifiedErrorsPropagate ==
    (/\ Done
     /\ call.reqResult.kind \in C17_ExchangeErrors
     /\ ~(call.op = "resolve_name" /\ call.reqResult.kind = "NotFound")) =>
        call.result = call.reqResult

C17_Witness ==
    /\ Done
    /\ call.op = "resolve_name"
    /\ call.reqResult.kind = "Denied"
    /\ call.result.kind = "Denied"
    /\ call.result.msg = "boom"

\* the operations C18 lists that unwrap the success field
C18_SuccessOps ==
    {"invoke", "revoke", "introduce", "accept_agreement", "complete_agreement"}

\* the body lacks a field that the operation unwraps
C18_Lacks(op, body) ==
    CASE op = "register" -> ~({"did", "signing_key_hex", "document"} \subseteq DOMAIN body.fields)
      [] op = "create_capability" -> ~({"capability_id_hex", "capability"} \subseteq DOMAIN body.fields)
      [] op \in C18_SuccessOps -> ~HasKey(body, "success")
      [] op \in {"coherence", "peer_coherence"} ->
            \/ ~HasKey(body, "profile")
            \/ body.fields["profile"] = "{profile without decayed_mass}"
      [] OTHER -> FALSE

\* C18: when a 2xx response (a JSON object) lacks a field that the operation
\* unwraps, the operation raises Protocol.
C18_MissingFieldIsProtocol ==
    (/\ Done
     /\ call.exchange.kind = "response"
     /\ call.exchange.status \in 200..299
     /\ call.exchange.body.json = "object"
     /\ C18_Lacks(call.op, call.exchange.body)) =>
        call.result.kind = "Protocol"

\* the pass-through operations C19 lists
C19_Ops ==
    {"get_identity", "get_capability", "delegate", "curvature_derivative",
     "excitability", "gradient_map", "query_oracle", "get_distribution",
     "pool_status", "create_pool", "pool_deposit", "pool_distribute",
     "pool_claim", "node_status", "network_health", "propose_agreement",
     "create_proposal", "create_intent"}

\* C19: on a 2xx response whose body decodes, a pass-through operation
\* returns the decoded body itself, with the fields and values it has.
C19_PassThroughReturnsBody ==
    (/\ Done
     /\ call.op \in C19_Ops
     /\ call.exchange.kind = "response"
     /\ call.exchange.status \in 200..299
     /\ call.exchange.body.json # "invalid") =>
        /\ call.result.kind = "return"
        /\ call.result.ret = "json"
        /\ call.result.body = call.exchange.body

C19_Witness ==
    /\ Done
    /\ call.op = "pool_distribute"
    /\ call.exchange.status = 200
    /\ DOMAIN call.exchange.body.fields = {"capability_id_hex", "capability"}
    /\ call.result.kind = "return"
    /\ call.result.body = call.exchange.body

\* the operations C20 lists
C20_Ops ==
    {"get_identity", "get_capability", "peer_coherence", "curvature_derivative",
     "excitability", "gradient_map", "get_distribution", "list_distributions",
     "pool_status", "pool_claims", "neighborhoods", "node_status",
     "network_health"}

\* C20: on a client on which no register has succeeded, each listed operation
\* hands its request to the transport with nothing of a session in it, never
\* fails with NotRegistered, and returns or raises as the outcome of the
\* exchange says.
C20_UngatedOpsNeedNoSession ==
    (firstDid = None /\ Started /\ call.op \in C20_Ops) =>
        /\ call.sent = 1
        /\ call.request = NoRequest
        /\ Done =>
            /\ call.result.kind # "NotRegistered"
            /\ call.exchange.kind = "fault" => call.result.kind = "ConnectionFailure"
            /\ (call.exchange.kind = "response" /\ call.exchange.body.json = "object") =>
                /\ call.exchange.status \notin 200..299 =>
                      call.result.kind
                        = C2_Expected(call.exchange.status, call.exchange.body)[1]
                /\ (call.exchange.status \in 200..299 /\ call.op # "peer_coherence") =>
                      call.result.kind = "return"

C20_Witness ==
    /\ firstDid = None
    /\ ~is_registered
    /\ Done
    /\ call.op = "pool_status"
    /\ call.sent = 1
    /\ call.exchange.status = 200
    /\ call.result.kind = "return"

\* C21: when the with block has been left, normally or by an exception, the
\* transport has been closed, and an exception raised in the block is the
\* one that reaches the caller.
C21_ScopeExitCloses ==
    scope.state = "exited" =>
        /\ closed
        /\ scope.propagated = scope.raised

C21_Witness ==
    /\ scope.state = "exited"
    /\ scope.raised = "Denied"
    /\ scope.propagated = "Denied"
    /\ closed
    /\ call.result.kind = "Denied"

\* two JSON values are the same value (3 and 3.0 are the same number)
C22_Same(a, b) ==
    IF a.t = "str" \/ b.t = "str" THEN a = b ELSE a.v = b.v

C23_Phase(g) ==
    CASE g.state \in {"none", "created"} -> "Idle"
      [] g.state = "connecting" -> "Connecting"
      [] g.state \in {"running", "suspended"} -> "Streaming"
      [] g.state \in {"closed", "cancelled"} -> "Closed"
      [] g.state = "failed" -> "Failed"

\* the moves of one stream: forward, or out into Closed or Failed
C23_Edges ==
    {<<"Idle", "Connecting">>, <<"Connecting", "Streaming">>,
     <<"Streaming", "Streaming">>, <<"Streaming", "Closed">>,
     <<"Idle", "Failed">>, <<"Connecting", "Failed">>, <<"Streaming", "Failed">>,
     <<"Idle", "Closed">>}

\* a new watch call makes a new consumer; the caller drops one that is over
C23_NewWatch ==
    \/ gen' = NoGen
    \/ gen'.state = "created" /\ gen'.opened = 0 /\ gen'.lines = <<>>

\* C23: a stream consumer moves only from Idle to Connecting to Streaming and
\* out into Closed or Failed; Closed and Failed are terminal; an event is
\* delivered only in Streaming; one watch call never opens a second
\* streaming request.
C23_StreamStateMachine ==
    [][(gen' # gen /\ ~C23_NewWatch) =>
        /\ <<C23_Phase(gen), C23_Phase(gen')>> \in C23_Edges
        /\ (gen'.yielded # gen.yielded \/ gen'.called # gen.called) =>
              (gen.state = "running" /\ C23_Phase(gen') # "Closed")
        /\ gen'.opened <= 1
        /\ gen'.opened >= gen.opened]_vars

C23_Witness ==
    /\ gen.state = "failed"
    /\ gen.wire = "fault"
    /\ gen.opened = 1
    /\ gen.lines = <<Line_Event2>>
    /\ gen.yielded = << <<"2">> >>

\* the error that the status classification gives for a non-2xx status
C24_Classified(status) ==
    CASE status = 404 -> "NotFound"
      [] status = 403 -> "Denied"
      [] OTHER -> "Protocol"

\* C24: a non-2xx answer to the streaming request makes watch raise what the
\* status classification says (NotFound for 404, Denied for 403, Protocol
\* otherwise); watch raises ConnectionFailure only for a transport fault.
C24_WatchStatusClassification ==
    (gen.state = "failed" /\ gen.status # 0 /\ ~is_success(gen.status)) =>
        /\ gen.error = C24_Classified(gen.status)
        /\ gen.error # "ConnectionFailure"

\* C27: an exception that the delivery callback raises while it handles a
\* decoded event, a JSON decode error included, ends the stream and comes
\* out of watch as it is; it is not taken for a malformed frame.
C27_CallbackErrorsPropagate ==
    gen.cbRaised # "none" =>
        /\ gen.state = "failed"
        /\ gen.error = gen.cbRaised

\* C25: with a single caller, the DID and the credential of the session are
\* both absent or both present; when present they are those of one and the
\* same registration response; and a request that carries both never has a
\* DID without a credential.
C25_DidAndCredentialTogether ==
    /\ identity = NoIdentity <=> signing_key_hex = None
    /\ identity.did = None <=> signing_key_hex = None
    /\ is_registered =>
        /\ identity.signing_key_hex = signing_key_hex
        /\ identity.did = lastReg.did
        /\ signing_key_hex = lastReg.signing_key_hex
    /\ (Started /\ call.sent >= 1 /\ OpTable[call.op].did /\ OpTable[call.op].key) =>
        /\ call.request.did \in DIDs
        /\ call.request.key \in SigningKeys
        /\ call.request.key = identity.signing_key_hex

C25_Witness ==
    /\ is_registered
    /\ firstDid # identity.did
    /\ Done
    /\ call.op = "delegate"
    /\ call.request.did = identity.did
    /\ call.request.key = signing_key_hex
    /\ signing_key_hex \in SigningKeys

\* the step in which a register call ends with an exception
RegisterFails ==
    /\ call.phase = "waiting"
    /\ call.op = "register"
    /\ call'.phase = "done"
    /\ call'.result.kind # "return"

\* C26: a register that fails, with an error of the exchange or on a 2xx
\* response that lacks did, signing_key_hex or document, leaves the session
\* as it was: unregistered stays unregistered, registered keeps its DID and
\* credential.
C26_FailedRegisterKeepsSession ==
    [][RegisterFails =>
        /\ identity' = identity
        /\ signing_key_hex' = signing_key_hex
        /\ lastReg' = lastReg
        /\ (identity' # NoIdentity) <=> (identity # NoIdentity)]_vars

C26_Witness ==
    /\ Done
    /\ call.op = "register"
    /\ call.exchange.status = 200
    /\ DOMAIN call.exchange.body.fields = {"did", "document"}
    /\ call.result.kind = "ValidationError"
    /\ is_registered
    /\ identity = lastReg
    /\ call.exchange.body.fields["did"] # identity.did

\* C28: when a stream has left Streaming (clean close, transport fault,
\* non-2xx answer, iterator closed by the consumer, callback raised) its
\* streaming connection has been released, and a watch call has opened at
\* most one streaming connection.
C28_ConnectionReleased ==
    /\ gen.opened <= 1
    /\ gen.conn = "open" => (gen.state \in {"running", "suspended"} /\ gen.opened = 1)
    /\ GenOver =>
        /\ gen.conn # "open"
        /\ (gen.status # 0 \/ gen.lines # <<>>) => gen.conn = "released"

C28_Witness ==
    /\ gen.callback
    /\ gen.state = "failed"
    /\ gen.cbRaised = "Exception"
    /\ gen.error = "Exception"
    /\ gen.conn = "released"
    /\ gen.opened = 1

C30_RequestFromOneRegistration ==
    other.pc = "built" =>
        [did |-> other.did, key |-> other.key] \in other.regs

====
